---------------------------- MODULE Spec2Model ----------------------------
(***************************************************************************)
(* TodoistSorter: the run() coroutine of main.py as a state machine.       *)
(*                                                                         *)
(* One run fetches the tasks of a project page by page, keeps the tasks    *)
(* without a section, fetches the sections page by page, asks an AI agent  *)
(* for (task_id, section_id) pairs, calls move_task once per returned pair *)
(* under asyncio.gather(return_exceptions=True), and logs one line per     *)
(* pair.  An exception raised by a fetch or by the agent is not caught:    *)
(* it leaves run(), asyncio.run() re-raises it and the process ends with   *)
(* a failing status.                                                       *)
(***************************************************************************)
EXTENDS Integers, Sequences, FiniteSets, TLC

(***************************************************************************)
(* Bounds of the model and the data the collaborators can supply.          *)
(***************************************************************************)
\* Longest list of pairs the agent returns.
MaxProposals == 2

\* Most pages one paginated read returns.
MaxPages == 2

\* Task IDs and section IDs that exist remotely or that the agent may name.
TaskIds == {"T1", "T2"}

SectionIds == {"B1", "B2"}

\* Python's None, as the value of Task.section_id for a task in no section.
None == "None"

\* Task.content and Section.name of each remote entity.
TaskContent == [id \in TaskIds |-> IF id = "T1" THEN "Buy milk" ELSE "Call mom"]

SectionName == [id \in SectionIds |-> IF id = "B1" THEN "Work" ELSE "Home"]

\* What an awaited move_task gives asyncio.gather: True, or the exception raised.
MoveOk == "True"

Exceptions == {"HTTPError"}

VARIABLES
    taskPages,          \* the pages todoist.get_tasks yields for the project
    sectionPages,       \* the pages todoist.get_sections yields for the project
    remote,             \* remote store: task id -> section id the task is in
    pc,                 \* position of run(): the await it is suspended at
    raised,             \* None, or the call whose exception left run()
    tasks,              \* local list `tasks`
    taskPageNo,         \* pages of get_tasks consumed
    sections,           \* local list `sections`
    sectionPageNo,      \* pages of get_sections consumed
    non_assigned_tasks, \* local list `non_assigned_tasks`
    task_map,           \* dict task id -> content
    section_map,        \* dict section id -> name
    user_prompt,        \* the prompt handed to agent.run, <<>> until it is sent
    agentRuns,          \* number of agent.run invocations
    proposals,          \* result.output.task_to_sections
    calls,              \* move_task calls issued, in issue order
    unit,               \* per gathered awaitable: "pending", True or an exception
    results,            \* the list asyncio.gather returned
    log                 \* records emitted through logger

vars == <<taskPages, sectionPages, remote, pc, raised, tasks, taskPageNo,
          sections, sectionPageNo, non_assigned_tasks, task_map, section_map,
          user_prompt, agentRuns, proposals, calls, unit, results, log>>

(***************************************************************************)
(* Sequences.                                                              *)
(***************************************************************************)
Range(s) == {s[i] : i \in DOMAIN s}

RECURSIVE Flatten(_)
Flatten(pages) ==
    IF pages = <<>> THEN <<>> ELSE Head(pages) \o Flatten(Tail(pages))

Min(a, b) == IF a <= b THEN a ELSE b

\* All sequences over S of length at most n.
SeqsUpTo(S, n) == UNION {[1..k -> S] : k \in 0..n}

\* All sequences of distinct elements of S.
Distinct(S) == {s \in SeqsUpTo(S, Cardinality(S)) :
                   \A i, j \in DOMAIN s : i # j => s[i] # s[j]}

\* Every way to cut list into at most n consecutive non-empty pages; an empty
\* list comes as one empty page.
Pagings(list, n) ==
    IF list = <<>> THEN {<< <<>> >>}
    ELSE {ps \in SeqsUpTo({SubSeq(list, a, b) : a \in 1..Len(list),
                                                b \in 1..Len(list)} \ {<<>>}, n) :
             Flatten(ps) = list}

(***************************************************************************)
(* The pure pieces of run().                                               *)
(***************************************************************************)
\* Mutant of Extend: the page replaces the list instead of extending it.
ExtendOverwrites(list, page) == page

\* list.extend(page)
Extend(list, page) == list \o page

\* Mutant of Falsy: only None counts as "no section" (`section_id is None`).
FalsyNoneOnly(section_id) == section_id = None

\* `not task.section_id`: None and the empty string are both falsy.
Falsy(section_id) == section_id = None \/ section_id = ""

\* Mutant of NonAssigned: the condition of the comprehension is left out.
NonAssignedUnfiltered(ts) == ts

\* [task for task in tasks if not task.section_id]
NonAssigned(ts) == SelectSeq(ts, LAMBDA t : Falsy(t.section_id))

\* Mutant of NothingToAssign: the early return is never taken.
NothingToAssignNever(nat) == FALSE

\* `if not non_assigned_tasks`
NothingToAssign(nat) == nat = <<>>

\* {e.id: e[field] for e in list}: a later entry with the same id wins.
DictOf(list, field) ==
    [k \in {list[i].id : i \in DOMAIN list} |->
        LET last == CHOOSE i \in DOMAIN list :
                        /\ list[i].id = k
                        /\ \A j \in DOMAIN list : list[j].id = k => j <= i
        IN  list[last][field]]

\* dict.get(key, key)
GetOrKey(dict, key) == IF key \in DOMAIN dict THEN dict[key] ELSE key

\* f"{task.content} [TASK_ID: {task.id}]", as the pieces it is made of.
TaskLine(t) == <<t.content, " [TASK_ID: ", t.id, "]">>

\* f"{section.name} [SECTION_ID: {section.id}]"
SectionLine(s) == <<s.name, " [SECTION_ID: ", s.id, "]">>

\* "\n".join(lines)
RECURSIVE JoinLines(_)
JoinLines(lines) ==
    IF lines = <<>> THEN <<>>
    ELSE IF Len(lines) = 1 THEN Head(lines)
    ELSE Head(lines) \o <<"\n">> \o JoinLines(Tail(lines))

MsgTasks(nat) == JoinLines([i \in DOMAIN nat |-> TaskLine(nat[i])])

\* Mutant of MsgSections: the list is cut after its first section.
MsgSectionsTruncated(ss) ==
    JoinLines([i \in 1..Min(1, Len(ss)) |-> SectionLine(ss[i])])

MsgSections(ss) == JoinLines([i \in DOMAIN ss |-> SectionLine(ss[i])])

\* The literal pieces of the f-string passed as user_prompt.
TasksHeader == "\n    List of tasks:\n    "

SectionsHeader == "\n\n    List of sections:\n    "

PromptTail == "\n    "

\* The f-string passed as user_prompt: the literal pieces around the two
\* messages, in the order the template has them.
UserPrompt(msg_tasks, msg_sections) ==
    <<TasksHeader>> \o msg_tasks \o <<SectionsHeader>> \o msg_sections
        \o <<PromptTail>>

\* todoist.move_task(task_id=pair.task_id, section_id=pair.section_id)
MoveTaskCall(pair) == [task_id |-> pair.task_id, section_id |-> pair.section_id]

\* Mutant of MoveTaskCalls: only the first pair naming a task is called.
MoveTaskCallsDeduplicated(pairs) ==
    LET first == SelectSeq([i \in DOMAIN pairs |-> <<i, pairs[i]>>],
                           LAMBDA e : \A j \in 1..(e[1] - 1) :
                                         pairs[j].task_id # e[2].task_id)
    IN  [i \in DOMAIN first |-> MoveTaskCall(first[i][2])]

\* Mutant of MoveTaskCalls: every call is made with the last pair (the loop
\* variable is read when the calls run, not when they are made).
MoveTaskCallsLastPair(pairs) ==
    [i \in DOMAIN pairs |-> MoveTaskCall(pairs[Len(pairs)])]

\* The awaitables handed to asyncio.gather: one per pair, none left out.
MoveTaskCalls(pairs) == [i \in DOMAIN pairs |-> MoveTaskCall(pairs[i])]

\* Mutant of GatherResults: the exceptions are left out of the returned list.
GatherResultsWithoutExceptions(u) ==
    SelectSeq([i \in DOMAIN u |-> u[i]], LAMBDA r : r \notin Exceptions)

\* What gather(..., return_exceptions=True) returns: one entry per awaitable,
\* in the order the awaitables were passed.
GatherResults(u) == [i \in DOMAIN u |-> u[i]]

\* isinstance(move_result, Exception)
IsException(move_result) == move_result \in Exceptions

Info(fmt, args) == [level |-> "INFO", fmt |-> fmt, args |-> args]

Error(fmt, args) == [level |-> "ERROR", fmt |-> fmt, args |-> args]

StartedLine == Info("Starting task-section assignment process", <<>>)

AllAssignedLine == Info("All tasks already have sections assigned", <<>>)

FoundLine(n) == Info("Found %d tasks without section", <<ToString(n)>>)

RequestingLine == Info("Requesting AI agent to map tasks to sections", <<>>)

ReceivedLine == Info("Received mapping from AI agent, moving tasks to sections", <<>>)

CompletedLine == Info("Task-section assignment process completed", <<>>)

FailedFmt == "Failed to move task '%s' to section '%s': %s"

MovedFmt == "Successfully moved task '%s' to section '%s'"

\* The body of the reporting loop for one (pair, move_result).
OutcomeLine(pair, move_result, tmap, smap) ==
    LET task_name == GetOrKey(tmap, pair.task_id)
        section_name == GetOrKey(smap, pair.section_id)
    IN  IF IsException(move_result)
        THEN Error(FailedFmt, <<task_name, section_name, move_result>>)
        ELSE Info(MovedFmt, <<task_name, section_name>>)

\* for pair, move_result in zip(pairs, results): zip stops at the shorter list.
ReportLines(pairs, res, tmap, smap) ==
    [i \in 1..Min(Len(pairs), Len(res)) |->
        OutcomeLine(pairs[i], res[i], tmap, smap)]

\* Exit status of the process: asyncio.run re-raises what left run().
ExitStatus == IF raised = None THEN 0 ELSE 1

(***************************************************************************)
(* Initial states: any project the store can hold, cut into pages any way. *)
(***************************************************************************)
SectionLists ==
    {[i \in DOMAIN ids |-> [id |-> ids[i], name |-> SectionName[ids[i]]]] :
        ids \in Distinct(SectionIds)}

TaskLists(ss) ==
    LET refs == {None, ""} \cup {ss[i].id : i \in DOMAIN ss}
    IN  {[i \in DOMAIN ids |->
            [id |-> ids[i], content |-> TaskContent[ids[i]], section_id |-> secs[i]]] :
            <<ids, secs>> \in {p \in Distinct(TaskIds) \X SeqsUpTo(refs, Cardinality(TaskIds)) :
                                  Len(p[1]) = Len(p[2])}}

RemoteOf(ts) ==
    [id \in TaskIds |->
        IF \E i \in DOMAIN ts : ts[i].id = id
        THEN (CHOOSE t \in Range(ts) : t.id = id).section_id
        ELSE None]

Init ==
    /\ \E ss \in SectionLists :
         /\ sectionPages \in Pagings(ss, MaxPages)
         /\ \E ts \in TaskLists(ss) :
              /\ taskPages \in Pagings(ts, MaxPages)
              /\ remote = RemoteOf(ts)
    /\ pc = "start"
    /\ raised = None
    /\ tasks = <<>>
    /\ taskPageNo = 0
    /\ sections = <<>>
    /\ sectionPageNo = 0
    /\ non_assigned_tasks = <<>>
    /\ task_map = <<>>
    /\ section_map = <<>>
    /\ user_prompt = <<>>
    /\ agentRuns = 0
    /\ proposals = <<>>
    /\ calls = <<>>
    /\ unit = <<>>
    /\ results = <<>>
    /\ log = <<>>

(***************************************************************************)
(* run(), one action per stretch of code between two awaits.               *)
(***************************************************************************)
\* run() is entered: the first log line, then the first await of get_tasks.
RunStart ==
    /\ pc = "start"
    /\ log' = Append(log, StartedLine)
    /\ pc' = "get_tasks"
    /\ UNCHANGED <<taskPages, sectionPages, remote, raised, tasks, taskPageNo,
                   sections, sectionPageNo, non_assigned_tasks, task_map,
                   section_map, user_prompt, agentRuns, proposals, calls, unit,
                   results>>

\* A page of tasks arrives and more pages follow.
TasksPage ==
    /\ pc = "get_tasks"
    /\ taskPageNo + 1 < Len(taskPages)
    /\ tasks' = Extend(tasks, taskPages[taskPageNo + 1])
    /\ taskPageNo' = taskPageNo + 1
    /\ UNCHANGED <<taskPages, sectionPages, remote, pc, raised, sections,
                   sectionPageNo, non_assigned_tasks, task_map, section_map,
                   user_prompt, agentRuns, proposals, calls, unit, results, log>>

\* The last page of tasks arrives: the loop ends, the tasks are filtered, and
\* run() either returns (nothing to assign) or goes on to await get_sections.
TasksLastPage ==
    /\ pc = "get_tasks"
    /\ taskPageNo + 1 = Len(taskPages)
    /\ LET all == Extend(tasks, taskPages[taskPageNo + 1])
           nat == NonAssigned(all)
       IN  /\ tasks' = all
           /\ taskPageNo' = taskPageNo + 1
           /\ non_assigned_tasks' = nat
           /\ IF NothingToAssign(nat)
              THEN /\ log' = Append(log, AllAssignedLine)
                   /\ pc' = "done"
              ELSE /\ log' = Append(log, FoundLine(Len(nat)))
                   /\ pc' = "get_sections"
    /\ UNCHANGED <<taskPages, sectionPages, remote, raised, sections,
                   sectionPageNo, task_map, section_map, user_prompt, agentRuns,
                   proposals, calls, unit, results>>

\* Mutant of SectionsPage: the agent is asked as soon as one page of sections
\* has arrived, while more pages follow.
SectionsPageThenAgent ==
    /\ pc = "get_sections"
    /\ sectionPageNo + 1 < Len(sectionPages)
    /\ LET all == Extend(sections, sectionPages[sectionPageNo + 1])
       IN  /\ sections' = all
           /\ sectionPageNo' = sectionPageNo + 1
           /\ task_map' = DictOf(tasks, "content")
           /\ section_map' = DictOf(all, "name")
           /\ user_prompt' = UserPrompt(MsgTasks(non_assigned_tasks), MsgSections(all))
    /\ log' = Append(log, RequestingLine)
    /\ agentRuns' = agentRuns + 1
    /\ pc' = "agent_run"
    /\ UNCHANGED <<taskPages, sectionPages, remote, raised, tasks, taskPageNo,
                   non_assigned_tasks, proposals, calls, unit, results>>

\* A page of sections arrives and more pages follow.
SectionsPage ==
    /\ pc = "get_sections"
    /\ sectionPageNo + 1 < Len(sectionPages)
    /\ sections' = Extend(sections, sectionPages[sectionPageNo + 1])
    /\ sectionPageNo' = sectionPageNo + 1
    /\ UNCHANGED <<taskPages, sectionPages, remote, pc, raised, tasks, taskPageNo,
                   non_assigned_tasks, task_map, section_map, user_prompt,
                   agentRuns, proposals, calls, unit, results, log>>

\* The last page of sections arrives: the maps and the two messages are built
\* and agent.run is awaited with the prompt.
SectionsLastPage ==
    /\ pc = "get_sections"
    /\ sectionPageNo + 1 = Len(sectionPages)
    /\ LET all == Extend(sections, sectionPages[sectionPageNo + 1])
       IN  /\ sections' = all
           /\ sectionPageNo' = sectionPageNo + 1
           /\ task_map' = DictOf(tasks, "content")
           /\ section_map' = DictOf(all, "name")
           /\ user_prompt' = UserPrompt(MsgTasks(non_assigned_tasks), MsgSections(all))
    /\ log' = Append(log, RequestingLine)
    /\ agentRuns' = agentRuns + 1
    /\ pc' = "agent_run"
    /\ UNCHANGED <<taskPages, sectionPages, remote, raised, tasks, taskPageNo,
                   non_assigned_tasks, proposals, calls, unit, results>>

\* A page request of get_tasks or get_sections raises: nothing in run()
\* catches it.
FetchRaises ==
    /\ pc \in {"get_tasks", "get_sections"}
    /\ raised' = pc
    /\ pc' = "aborted"
    /\ UNCHANGED <<taskPages, sectionPages, remote, tasks, taskPageNo, sections,
                   sectionPageNo, non_assigned_tasks, task_map, section_map,
                   user_prompt, agentRuns, proposals, calls, unit, results, log>>

\* Mutant of AgentRaises: the exception is swallowed and run() goes on with
\* an empty mapping.
AgentRaisesSwallowed ==
    /\ pc = "agent_run"
    /\ raised' = pc
    /\ proposals' = <<>>
    /\ calls' = <<>>
    /\ unit' = <<>>
    /\ pc' = "gather"
    /\ UNCHANGED <<taskPages, sectionPages, remote, tasks, taskPageNo, sections,
                   sectionPageNo, non_assigned_tasks, task_map, section_map,
                   user_prompt, agentRuns, results, log>>

\* agent.run raises (transport failure, output that does not validate).
AgentRaises ==
    /\ pc = "agent_run"
    /\ raised' = pc
    /\ pc' = "aborted"
    /\ UNCHANGED <<taskPages, sectionPages, remote, tasks, taskPageNo, sections,
                   sectionPageNo, non_assigned_tasks, task_map, section_map,
                   user_prompt, agentRuns, proposals, calls, unit, results, log>>

\* agent.run returns any list of pairs; one move_task call is made per pair
\* and all of them are handed to asyncio.gather, which run() awaits.
AgentReturns ==
    /\ pc = "agent_run"
    /\ \E pairs \in SeqsUpTo([task_id : TaskIds, section_id : SectionIds], MaxProposals) :
         /\ proposals' = pairs
         /\ calls' = MoveTaskCalls(pairs)
         /\ unit' = [i \in DOMAIN MoveTaskCalls(pairs) |-> "pending"]
    /\ log' = Append(log, ReceivedLine)
    /\ pc' = "gather"
    /\ UNCHANGED <<taskPages, sectionPages, remote, raised, tasks, taskPageNo,
                   sections, sectionPageNo, non_assigned_tasks, task_map,
                   section_map, user_prompt, agentRuns, results>>

\* Mutant of MoveTaskDone: gather without return_exceptions, so the first
\* exception of a call leaves gather and run().
MoveTaskDoneFailFast(i) ==
    /\ pc = "gather"
    /\ unit[i] = "pending"
    /\ \E r \in {MoveOk} \cup Exceptions :
         /\ unit' = [unit EXCEPT ![i] = r]
         /\ remote' = IF r = MoveOk
                      THEN [remote EXCEPT ![calls[i].task_id] = calls[i].section_id]
                      ELSE remote
         /\ pc' = IF r = MoveOk THEN pc ELSE "aborted"
         /\ raised' = IF r = MoveOk THEN raised ELSE "gather"
    /\ UNCHANGED <<taskPages, sectionPages, tasks, taskPageNo,
                   sections, sectionPageNo, non_assigned_tasks, task_map,
                   section_map, user_prompt, agentRuns, proposals, calls,
                   results, log>>

\* One move_task call finishes, in any order relative to the others: the
\* store accepted it (the task is now in that section) or it raised.
MoveTaskDone(i) ==
    /\ pc = "gather"
    /\ unit[i] = "pending"
    /\ \E r \in {MoveOk} \cup Exceptions :
         /\ unit' = [unit EXCEPT ![i] = r]
         /\ remote' = IF r = MoveOk
                      THEN [remote EXCEPT ![calls[i].task_id] = calls[i].section_id]
                      ELSE remote
    /\ UNCHANGED <<taskPages, sectionPages, pc, raised, tasks, taskPageNo,
                   sections, sectionPageNo, non_assigned_tasks, task_map,
                   section_map, user_prompt, agentRuns, proposals, calls,
                   results, log>>

\* Mutant of GatherReturns: run() returns without its last log line.
GatherReturnsWithoutLastLine ==
    /\ pc = "gather"
    /\ \A i \in DOMAIN unit : unit[i] # "pending"
    /\ results' = GatherResults(unit)
    /\ log' = log \o ReportLines(proposals, GatherResults(unit), task_map, section_map)
    /\ pc' = "done"
    /\ UNCHANGED <<taskPages, sectionPages, remote, raised, tasks, taskPageNo,
                   sections, sectionPageNo, non_assigned_tasks, task_map,
                   section_map, user_prompt, agentRuns, proposals, calls, unit>>

\* Mutant of GatherReturns: the join also ends as soon as one call has raised,
\* with the other calls still pending.
GatherReturnsOnFirstException ==
    /\ pc = "gather"
    /\ \/ \A i \in DOMAIN unit : unit[i] # "pending"
       \/ \E i \in DOMAIN unit : unit[i] \in Exceptions
    /\ results' = GatherResults(unit)
    /\ log' = log \o ReportLines(proposals, GatherResults(unit), task_map, section_map)
                  \o <<CompletedLine>>
    /\ pc' = "done"
    /\ UNCHANGED <<taskPages, sectionPages, remote, raised, tasks, taskPageNo,
                   sections, sectionPageNo, non_assigned_tasks, task_map,
                   section_map, user_prompt, agentRuns, proposals, calls, unit>>

\* Mutant of GatherReturns: the join ends only when every call succeeded.
GatherReturnsOnlyOnSuccess ==
    /\ pc = "gather"
    /\ \A i \in DOMAIN unit : unit[i] = MoveOk
    /\ results' = GatherResults(unit)
    /\ log' = log \o ReportLines(proposals, GatherResults(unit), task_map, section_map)
                  \o <<CompletedLine>>
    /\ pc' = "done"
    /\ UNCHANGED <<taskPages, sectionPages, remote, raised, tasks, taskPageNo,
                   sections, sectionPageNo, non_assigned_tasks, task_map,
                   section_map, user_prompt, agentRuns, proposals, calls, unit>>

\* Every gathered call has finished: gather returns, the reporting loop logs
\* one line per (pair, result) and run() logs its last line and returns.
GatherReturns ==
    /\ pc = "gather"
    /\ \A i \in DOMAIN unit : unit[i] # "pending"
    /\ results' = GatherResults(unit)
    /\ log' = log \o ReportLines(proposals, GatherResults(unit), task_map, section_map)
                  \o <<CompletedLine>>
    /\ pc' = "done"
    /\ UNCHANGED <<taskPages, sectionPages, remote, raised, tasks, taskPageNo,
                   sections, sectionPageNo, non_assigned_tasks, task_map,
                   section_map, user_prompt, agentRuns, proposals, calls, unit>>

Next ==
    \/ RunStart
    \/ TasksPage
    \/ TasksLastPage
    \/ SectionsPage
    \/ SectionsLastPage
    \/ FetchRaises
    \/ AgentRaises
    \/ AgentReturns
    \/ \E i \in DOMAIN unit : MoveTaskDone(i)
    \/ GatherReturns

Spec == Init /\ [][Next]_vars

(***************************************************************************)
(* The same run when every awaited call comes back: each page request      *)
(* yields its page or raises, agent.run returns or raises, every move_task *)
(* call returns or raises, and the event loop resumes run() when what it   *)
(* awaits is done.  Nothing in run() retries or loops on its own.          *)
(***************************************************************************)
Fairness ==
    /\ WF_vars(RunStart)
    /\ WF_vars(TasksPage \/ TasksLastPage \/ FetchRaises)
    /\ WF_vars(SectionsPage \/ SectionsLastPage \/ FetchRaises)
    /\ WF_vars(AgentReturns \/ AgentRaises)
    /\ \A i \in 1..MaxProposals : WF_vars(i \in DOMAIN unit /\ MoveTaskDone(i))
    /\ WF_vars(GatherReturns)

FairSpec == Init /\ [][Next]_vars /\ Fairness

(***************************************************************************)
(* What the properties are stated against: the store's own data.           *)
(***************************************************************************)
\* The project as the store holds it: every page, in page order.
StoreTasks == Flatten(taskPages)

StoreSections == Flatten(sectionPages)

StoreTaskIds == {t.id : t \in Range(StoreTasks)}

StoreSectionIds == {b.id : b \in Range(StoreSections)}

\* Both IDs of a pair exist in the snapshot.
ValidReference(pair) ==
    pair.task_id \in StoreTaskIds /\ pair.section_id \in StoreSectionIds

\* A task that carries a non-empty section reference in the store.
HasSection(t) == t.section_id # None /\ t.section_id # ""

\* The label of an ID in the store, the ID itself when the store has none.
LabelOfTask(id) ==
    IF id \in StoreTaskIds
    THEN (CHOOSE t \in Range(StoreTasks) : t.id = id).content
    ELSE id

LabelOfSection(id) ==
    IF id \in StoreSectionIds
    THEN (CHOOSE b \in Range(StoreSections) : b.id = id).name
    ELSE id

\* The per-pair lines of the log, in the order they were emitted.
OutcomeLines == SelectSeq(log, LAMBDA l : l.fmt \in {MovedFmt, FailedFmt})

\* The lines that end a run that returned.
SummaryLines == {CompletedLine, AllAssignedLine}

\* How many entries of the list s equal x.
Count(s, x) == Cardinality({i \in DOMAIN s : s[i] = x})

\* The task IDs the prompt lists after a TASK_ID marker.
ListedTaskIds ==
    {user_prompt[k + 1] : k \in {j \in 1..(Len(user_prompt) - 1) :
                                    user_prompt[j] = " [TASK_ID: "}}

\* The prompt holds the whole line of task t.
ListsTask(t) ==
    \E k \in 1..(Len(user_prompt) - 3) :
        SubSeq(user_prompt, k, k + 3) = <<t.content, " [TASK_ID: ", t.id, "]">>

\* The agent has returned its pairs to run().
AgentReturned == pc = "gather" \/ (pc = "done" /\ agentRuns > 0)

\* run() returned after the reporting loop.
Reported == pc = "done" /\ agentRuns > 0

TasksDrained == taskPageNo = Len(taskPages)

SectionsDrained == sectionPageNo = Len(sectionPages)

(***************************************************************************)
(* C1.  Validation soundness, as claimed: no move_task call is ever issued *)
(* for a pair whose task ID or section ID is not in the snapshot.          *)
(* run() passes every returned pair to move_task unchecked, so this is     *)
(* violated.                                                               *)
(***************************************************************************)
C1_NoCallForInvalidReference ==
    \A i \in DOMAIN calls : ValidReference(calls[i])

(***************************************************************************)
(* C2.  Isolation: once the agent has returned, every pair has its call,   *)
(* issued before any of them finishes; a call that raised never ends the   *)
(* run or leaves a sibling unfinished at the join; and the line reported   *)
(* for pair i says "moved" exactly when call i returned and "failed"       *)
(* exactly when call i raised, whatever the other calls did.               *)
(***************************************************************************)
C2_Isolation ==
    /\ AgentReturned => DOMAIN unit = DOMAIN proposals /\ Len(calls) = Len(proposals)
    /\ (\E i \in DOMAIN unit : unit[i] \in Exceptions) =>
           /\ pc \in {"gather", "done"}
           /\ raised = None
    /\ Reported =>
           /\ Len(OutcomeLines) = Len(proposals)
           /\ \A i \in DOMAIN proposals :
                /\ unit[i] # "pending"
                /\ OutcomeLines[i].fmt = MovedFmt <=> unit[i] = MoveOk
                /\ OutcomeLines[i].fmt = FailedFmt <=> unit[i] \in Exceptions

\* Two calls, the first raised, the second succeeded, both reported.
C2_Witness ==
    /\ Reported
    /\ Len(proposals) = 2
    /\ unit[1] \in Exceptions
    /\ unit[2] = MoveOk
    /\ OutcomeLines[1].level = "ERROR"
    /\ OutcomeLines[2].level = "INFO"

(***************************************************************************)
(* C3.  Outcome completeness and order: when run() has returned from the   *)
(* apply phase, gather's list and the report each hold exactly one entry   *)
(* per pair, and the i-th entry is the one of the i-th pair: its labels    *)
(* are the labels of that pair's IDs and its result is that call's result. *)
(***************************************************************************)
C3_OutcomePerProposalInOrder ==
    Reported =>
        /\ Len(results) = Len(proposals)
        /\ Len(OutcomeLines) = Len(proposals)
        /\ \A i \in DOMAIN proposals :
             /\ results[i] = unit[i]
             /\ OutcomeLines[i].args[1] = LabelOfTask(proposals[i].task_id)
             /\ OutcomeLines[i].args[2] = LabelOfSection(proposals[i].section_id)
             /\ unit[i] \in Exceptions =>
                    OutcomeLines[i] = Error(FailedFmt,
                        <<LabelOfTask(proposals[i].task_id),
                          LabelOfSection(proposals[i].section_id), unit[i]>>)
             /\ unit[i] = MoveOk =>
                    OutcomeLines[i] = Info(MovedFmt,
                        <<LabelOfTask(proposals[i].task_id),
                          LabelOfSection(proposals[i].section_id)>>)

\* Two different pairs with different results, both reported.
C3_Witness ==
    /\ Reported
    /\ Len(proposals) = 2
    /\ proposals[1].task_id # proposals[2].task_id
    /\ unit[1] = MoveOk
    /\ unit[2] \in Exceptions
    /\ Len(OutcomeLines) = 2

(***************************************************************************)
(* C4.  No-op short circuit: when no task of the project lacks a section   *)
(* (the empty project included), the agent is never invoked and no prompt  *)
(* is built, and once the tasks are read the run has returned with status  *)
(* 0, its last line the "all assigned" line.                               *)
(***************************************************************************)
C4_NoOpShortCircuit ==
    (\A t \in Range(StoreTasks) : HasSection(t)) =>
        /\ agentRuns = 0
        /\ user_prompt = <<>>
        /\ pc \in {"start", "get_tasks", "done", "aborted"}
        /\ TasksDrained =>
               /\ pc = "done"
               /\ ExitStatus = 0
               /\ log[Len(log)] = AllAssignedLine

\* A project with tasks, all of them in a section, read to the end.
C4_Witness ==
    /\ pc = "done"
    /\ StoreTasks # <<>>
    /\ \A t \in Range(StoreTasks) : HasSection(t)
    /\ tasks = StoreTasks

(***************************************************************************)
(* C5.  Fatal errors precede all mutation: when a page request or the      *)
(* agent call raised, the run is aborted with a failing status, no         *)
(* move_task call has been issued and none is issued afterwards, and the   *)
(* store is as it was.                                                     *)
(***************************************************************************)
C5_FatalBeforeMutation ==
    raised # None =>
        /\ raised \in {"get_tasks", "get_sections", "agent_run"}
        /\ pc = "aborted"
        /\ ExitStatus = 1
        /\ calls = <<>>
        /\ remote = RemoteOf(StoreTasks)

\* The agent call raised after both fetches completed.
C5_Witness ==
    /\ pc = "aborted"
    /\ raised = "agent_run"
    /\ TasksDrained
    /\ SectionsDrained

(***************************************************************************)
(* C6.  Filter correctness: a task with a non-empty section reference is   *)
(* never in non_assigned_tasks and is never listed in the prompt; once the *)
(* tasks are read, a task without one is in non_assigned_tasks, and it is  *)
(* listed in every prompt that is sent.                                    *)
(***************************************************************************)
C6_FilterCorrect ==
    \A t \in Range(StoreTasks) :
        /\ HasSection(t) =>
               /\ t \notin Range(non_assigned_tasks)
               /\ t.id \notin ListedTaskIds
        /\ (~HasSection(t) /\ TasksDrained) =>
               t \in Range(non_assigned_tasks)
        /\ (~HasSection(t) /\ agentRuns > 0) => ListsTask(t)

\* A prompt was sent for a project with one task in a section and one task
\* whose section reference is the empty string.
C6_Witness ==
    /\ agentRuns > 0
    /\ \E t \in Range(StoreTasks) : HasSection(t)
    /\ \E t \in Range(StoreTasks) : t.section_id = "" /\ ListsTask(t)

(***************************************************************************)
(* C7.  Snapshot completeness: after k pages, the loaded list is the       *)
(* concatenation of the first k pages, in page order and within a page in  *)
(* the page's order; once the pages are drained it is the whole project,   *)
(* every entity once.  The same for sections.                              *)
(***************************************************************************)
C7_SnapshotComplete ==
    /\ tasks = Flatten(SubSeq(taskPages, 1, taskPageNo))
    /\ sections = Flatten(SubSeq(sectionPages, 1, sectionPageNo))
    /\ TasksDrained =>
           /\ tasks = StoreTasks
           /\ \A id \in StoreTaskIds :
                  Cardinality({i \in DOMAIN tasks : tasks[i].id = id}) = 1
    /\ SectionsDrained =>
           /\ sections = StoreSections
           /\ \A id \in StoreSectionIds :
                  Cardinality({i \in DOMAIN sections : sections[i].id = id}) = 1

\* Tasks and sections both came in two pages and both were drained.
C7_Witness ==
    /\ Len(taskPages) = 2
    /\ Len(sectionPages) = 2
    /\ TasksDrained
    /\ SectionsDrained
    /\ Len(tasks) = 2
    /\ Len(sections) = 2

(***************************************************************************)
(* C8, as claimed.  Every run that has ended, aborted runs included, has   *)
(* emitted a summary line as its last line.                                *)
(***************************************************************************)
C8_EveryEndedRunHasSummary ==
    pc \in {"done", "aborted"} => log[Len(log)] \in SummaryLines

(***************************************************************************)
(* C8, amended.  Every run that returns ends its log with a summary line:  *)
(* the "all assigned" line for a no-op, the "completed" line after the     *)
(* apply phase whatever the results.  A run aborted by a fetch or agent    *)
(* failure has emitted no summary line.                                    *)
(***************************************************************************)
C8_ReturnedRunHasSummary ==
    /\ pc = "done" =>
           /\ log[Len(log)] \in SummaryLines
           /\ agentRuns = 0 => log[Len(log)] = AllAssignedLine
           /\ agentRuns > 0 => log[Len(log)] = CompletedLine
    /\ pc = "aborted" => \A i \in DOMAIN log : log[i] \notin SummaryLines

\* The apply phase ended with a failed call and the run returned.
C8_Witness ==
    /\ Reported
    /\ \E i \in DOMAIN unit : unit[i] \in Exceptions
    /\ log[Len(log)] = CompletedLine

(***************************************************************************)
(* C9, as claimed.  A pair whose task ID or section ID is not in the       *)
(* snapshot gets no move_task call, and its report line is a failure line, *)
(* never a "moved" line.  run() calls move_task for it and reports what    *)
(* the store answered, so this is violated.                                *)
(***************************************************************************)
C9_InvalidReferenceReportedFailed ==
    Reported =>
        \A i \in 1..Min(Len(proposals), Len(OutcomeLines)) :
            ~ValidReference(proposals[i]) =>
                /\ OutcomeLines[i].fmt = FailedFmt
                /\ Count(calls, MoveTaskCall(proposals[i])) = 0

(***************************************************************************)
(* C10.  One call per validated pair: from the moment the agent has        *)
(* returned, and at every later point of the run, the calls issued with a  *)
(* valid (task ID, section ID) are as many as the pairs with those IDs: no *)
(* pair is skipped, pairs naming the same task are all called, and no call *)
(* is issued again after it raised.  Call i carries the IDs of pair i.     *)
(***************************************************************************)
C10_OneCallPerValidProposal ==
    AgentReturned =>
        /\ \A p \in Range(proposals) :
               ValidReference(p) => Count(calls, MoveTaskCall(p)) = Count(proposals, p)
        /\ \A i \in DOMAIN proposals :
               ValidReference(proposals[i]) =>
                   /\ i \in DOMAIN calls
                   /\ calls[i].task_id = proposals[i].task_id
                   /\ calls[i].section_id = proposals[i].section_id

\* Two valid pairs name the same task with different sections; the first
\* call raised; the run has returned with two calls issued in all.
C10_Witness ==
    /\ Reported
    /\ Len(proposals) = 2
    /\ proposals[1].task_id = proposals[2].task_id
    /\ proposals[1].section_id # proposals[2].section_id
    /\ ValidReference(proposals[1])
    /\ ValidReference(proposals[2])
    /\ unit[1] \in Exceptions
    /\ Len(calls) = 2

(***************************************************************************)
(* C11, as claimed.  No two apply units of a run write to the same task,   *)
(* and so, when the apply phase is over, a task that was written holds the *)
(* section of every successful call that named it, in every interleaving.  *)
(* The agent may name a task twice and both pairs are called, so this is   *)
(* violated.                                                               *)
(***************************************************************************)
C11_UnitsWriteDistinctItems ==
    /\ \A i, j \in DOMAIN calls : i # j => calls[i].task_id # calls[j].task_id
    /\ Reported =>
           \A i \in DOMAIN calls :
               unit[i] = MoveOk => remote[calls[i].task_id] = calls[i].section_id

(***************************************************************************)
(* C11, amended.  A task named by exactly one pair is written by that      *)
(* pair's unit alone: when the apply phase is over it is in that pair's    *)
(* section if the call succeeded and where it was if the call raised, in   *)
(* every interleaving; a task named by no pair is where it was.  A task    *)
(* named by several pairs is written by each of their units, and ends in   *)
(* the section of one of the successful calls (which one depends on the    *)
(* order the calls complete in), or where it was if none succeeded.        *)
(***************************************************************************)
C11_DistinctItemsDeterministic ==
    Reported =>
        \A t \in TaskIds :
            LET naming == {i \in DOMAIN proposals : proposals[i].task_id = t}
                moved == {i \in naming : unit[i] = MoveOk}
            IN  /\ moved = {} => remote[t] = RemoteOf(StoreTasks)[t]
                /\ moved # {} => \E i \in moved : remote[t] = proposals[i].section_id
                /\ \A i \in naming :
                       (Cardinality(naming) = 1 /\ unit[i] = MoveOk) =>
                           remote[t] = proposals[i].section_id

\* Two pairs naming different tasks with different sections, both calls
\* succeeded, and each task is in its own pair's section.
C11_Witness ==
    /\ Reported
    /\ Len(proposals) = 2
    /\ proposals[1].task_id # proposals[2].task_id
    /\ proposals[1].section_id # proposals[2].section_id
    /\ unit[1] = MoveOk
    /\ unit[2] = MoveOk
    /\ remote[proposals[1].task_id] = proposals[1].section_id
    /\ remote[proposals[2].task_id] = proposals[2].section_id

\* The section IDs the prompt lists after a SECTION_ID marker.
ListedSectionIds ==
    {user_prompt[k + 1] : k \in {j \in 1..(Len(user_prompt) - 1) :
                                    user_prompt[j] = " [SECTION_ID: "}}

(***************************************************************************)
(* C12.  Phase ordering: the agent is invoked at most once and only when   *)
(* every page of tasks and every page of sections has been consumed, its   *)
(* prompt listing every unassigned task and every section of the project;  *)
(* and a move_task call exists only once the agent has returned its whole  *)
(* list, never while a fetch or the agent call is being awaited.           *)
(***************************************************************************)
C12_PhaseOrder ==
    /\ agentRuns <= 1
    /\ agentRuns > 0 =>
           /\ TasksDrained
           /\ SectionsDrained
           /\ tasks = StoreTasks
           /\ sections = StoreSections
           /\ \A t \in Range(StoreTasks) : ~HasSection(t) => t.id \in ListedTaskIds
           /\ ListedSectionIds = StoreSectionIds
    /\ pc \in {"start", "get_tasks", "get_sections", "agent_run"} =>
           /\ calls = <<>>
           /\ proposals = <<>>
    /\ calls # <<>> =>
           /\ AgentReturned
           /\ Len(calls) = Len(proposals)

\* Calls were issued in a run whose tasks and sections each came in two pages.
C12_Witness ==
    /\ pc = "gather"
    /\ Len(taskPages) = 2
    /\ Len(sectionPages) = 2
    /\ Len(calls) = 2
    /\ ListedSectionIds = SectionIds

(***************************************************************************)
(* C13.  Join barrier: while any launched move_task call is still pending, *)
(* run() is suspended in gather: no per-pair line and no summary line has  *)
(* been emitted and gather has returned nothing, also when other calls     *)
(* have already raised; and when run() has left the apply phase, no call   *)
(* is pending.                                                             *)
(***************************************************************************)
C13_JoinBarrier ==
    /\ (\E i \in DOMAIN unit : unit[i] = "pending") =>
           /\ pc = "gather"
           /\ OutcomeLines = <<>>
           /\ \A k \in DOMAIN log : log[k] \notin SummaryLines
           /\ results = <<>>
    /\ Reported => \A i \in DOMAIN unit : unit[i] # "pending"

\* One call has raised while the other is still in flight.
C13_Witness ==
    /\ pc = "gather"
    /\ Len(unit) = 2
    /\ unit[1] \in Exceptions
    /\ unit[2] = "pending"
    /\ OutcomeLines = <<>>

\* The agent's answer has been received by run().
AgentAnswered == \E k \in DOMAIN log : log[k] = ReceivedLine

\* run() has ended, by returning or by an exception.
Terminated == pc \in {"done", "aborted"}

(***************************************************************************)
(* C14.  Once the agent has returned, no exception ever leaves run(), and  *)
(* (every move_task call coming back) the run reaches its end with one     *)
(* line per pair, the "completed" line last and exit status 0, whether the *)
(* calls all succeed, all raise, are mixed, or there are none.             *)
(***************************************************************************)
C14_ApplyFailureNeverAborts ==
    /\ [](AgentAnswered => raised = None /\ pc # "aborted")
    /\ AgentAnswered ~> (/\ pc = "done"
                         /\ ExitStatus = 0
                         /\ Len(OutcomeLines) = Len(proposals)
                         /\ log[Len(log)] = CompletedLine)

\* The all-failure extreme: two calls, both raised, the run completed.
C14_Witness ==
    /\ Reported
    /\ Len(unit) = 2
    /\ \A i \in DOMAIN unit : unit[i] \in Exceptions
    /\ log[Len(log)] = CompletedLine
    /\ ExitStatus = 0

(***************************************************************************)
(* C16.  Termination: when every awaited external call comes back, the run *)
(* eventually ends (no-op, completed or aborted); and a run that has not   *)
(* ended is never stuck on its own: it is awaiting a page, the agent or a  *)
(* pending move_task call, or it can take its next step.                   *)
(***************************************************************************)
C16_Terminates ==
    /\ <>Terminated
    /\ [](\/ Terminated
          \/ pc \in {"get_tasks", "get_sections", "agent_run"}
          \/ (pc = "gather" /\ \E i \in DOMAIN unit : unit[i] = "pending")
          \/ ENABLED (RunStart \/ GatherReturns))

\* A run that went through two pages of each fetch, the agent and two calls,
\* one of which raised, has ended.
C16_Witness ==
    /\ Terminated
    /\ Len(taskPages) = 2
    /\ Len(sectionPages) = 2
    /\ Len(unit) = 2
    /\ \E i \in DOMAIN unit : unit[i] \in Exceptions
    /\ results # <<>>

\* Reading a prompt back.  The position of the sections header, the tokens
\* of the task list before it and those of the section list after it.
SectionsHeaderAt ==
    CHOOSE h \in DOMAIN user_prompt : user_prompt[h] = SectionsHeader

PromptTaskTokens == SubSeq(user_prompt, 2, SectionsHeaderAt - 1)

PromptSectionTokens ==
    SubSeq(user_prompt, SectionsHeaderAt + 1, Len(user_prompt) - 1)

\* tokens is a list of lines `label marker id ]` separated by newlines.
WellFormedList(tokens, marker) ==
    \/ tokens = <<>>
    \/ /\ (Len(tokens) + 1) % 5 = 0
       /\ \A k \in DOMAIN tokens :
            /\ k % 5 = 2 => tokens[k] = marker
            /\ k % 5 = 4 => tokens[k] = "]"
            /\ k % 5 = 0 => tokens[k] = "\n"

\* The (label, ID) pairs of such a list, in the order they are listed.
ListedPairs(tokens) ==
    [k \in 1..((Len(tokens) + 1) \div 5) |->
        <<tokens[5 * (k - 1) + 1], tokens[5 * (k - 1) + 3]>>]

\* The tasks of the store without a section, in store order.
StoreUnassigned == SelectSeq(StoreTasks, LAMBDA t : ~HasSection(t))

(***************************************************************************)
(* C15.  Request contents: the prompt sent to the agent is the template    *)
(* around two lists; the task list holds, as (content, ID) pairs, exactly  *)
(* the unassigned tasks of the project in store order, and the section     *)
(* list holds, as (name, ID) pairs, exactly all sections of the project in *)
(* store order: nothing merged, cut or added.  The prompt is thereby a     *)
(* function of the snapshot.                                               *)
(***************************************************************************)
C15_RequestContents ==
    agentRuns > 0 =>
        /\ user_prompt[1] = TasksHeader
        /\ user_prompt[Len(user_prompt)] = PromptTail
        /\ Cardinality({h \in DOMAIN user_prompt : user_prompt[h] = SectionsHeader}) = 1
        /\ WellFormedList(PromptTaskTokens, " [TASK_ID: ")
        /\ WellFormedList(PromptSectionTokens, " [SECTION_ID: ")
        /\ ListedPairs(PromptTaskTokens) =
               [k \in DOMAIN StoreUnassigned |->
                   <<StoreUnassigned[k].content, StoreUnassigned[k].id>>]
        /\ ListedPairs(PromptSectionTokens) =
               [k \in DOMAIN StoreSections |->
                   <<StoreSections[k].name, StoreSections[k].id>>]

\* A prompt for a project of three entities listed against ID order: an
\* assigned task, an unassigned one, and two sections.
C15_Witness ==
    /\ agentRuns > 0
    /\ Len(StoreSections) = 2
    /\ StoreSections[1].id = "B2"
    /\ Len(StoreTasks) = 2
    /\ Len(StoreUnassigned) = 1
    /\ Len(ListedPairs(PromptTaskTokens)) = 1
    /\ Len(ListedPairs(PromptSectionTokens)) = 2

(***************************************************************************)
(* C17, as claimed.  move_task is only ever called for tasks of the        *)
(* unassigned set that was sent to the agent, so a task that has a section *)
(* in the snapshot is where it was whatever the agent returns.  run() does *)
(* not compare the returned IDs with that set, so this is violated.        *)
(***************************************************************************)
C17_OnlyUnassignedTasksMoved ==
    /\ \A i \in DOMAIN calls :
           calls[i].task_id \in {t.id : t \in Range(StoreUnassigned)}
    /\ \A t \in Range(StoreTasks) :
           HasSection(t) => remote[t.id] = t.section_id

(***************************************************************************)
(* C18.  A no-op run touches nothing beyond the task fetch: when no task   *)
(* of the project lacks a section, get_sections is never awaited and no    *)
(* page of it is consumed, no move_task call is issued, and every task of  *)
(* the store stays in the section it was in.                               *)
(***************************************************************************)
C18_NoOpTouchesNothing ==
    (\A t \in Range(StoreTasks) : HasSection(t)) =>
        /\ pc # "get_sections"
        /\ sectionPageNo = 0
        /\ sections = <<>>
        /\ section_map = <<>>
        /\ raised # "get_sections"
        /\ calls = <<>>
        /\ unit = <<>>
        /\ remote = RemoteOf(StoreTasks)

\* A finished no-op run over a project that has tasks and sections.
C18_Witness ==
    /\ pc = "done"
    /\ Len(StoreTasks) = 2
    /\ \A t \in Range(StoreTasks) : HasSection(t)
    /\ StoreSections # <<>>
    /\ log[Len(log)] = AllAssignedLine
    /\ sectionPageNo = 0

=============================================================================
